---------------------------- MODULE Spec2Model ----------------------------
(***************************************************************************)
(* A model of src/app.py: ProjectAnalyzer.clean_url, the fetch-with-       *)
(* fallback state machine of ProjectAnalyzer.analyze_url, the feature      *)
(* extraction it applies to a fetched page, ProjectAnalyzer.               *)
(* _calculate_scores, GrowthAnalyzer.analyze_project_growth,               *)
(* GrowthDashboard.show_growth_dashboard and the operations of             *)
(* ProjectTracker on the project list of the session.                      *)
(*                                                                         *)
(* Python strings are sequences of one-character strings, so that          *)
(* str.replace, str.split, str.rstrip, str.startswith and the `in` test    *)
(* act on characters as they do in Python.                                 *)
(***************************************************************************)
EXTENDS Integers, Sequences, FiniteSets, TLC

VARIABLES
    \* one call of ProjectAnalyzer.analyze_url
    url,               \* the argument
    pc,                \* where the call is: "idle", a fetch state (a GET
                       \* is under way), or returned: "DONE" (a response
                       \* was analysed), "FAILED" (every GET failed),
                       \* "RAISED" (a GET raised another exception)
    cleaned_url,       \* local cleaned_url
    alternative_urls,  \* local alternative_urls (<<>> until it is built)
    gets,              \* every requests.get issued so far, in order, with
                       \* how it ended: "RequestException", another
                       \* exception ("UnicodeError") or "response"
    response,          \* local response (None until a GET returns)
    result,            \* the returned value (None until the call returns)
    \* repeated calls of ProjectAnalyzer.clean_url
    cu_url,            \* the first argument
    cu_outs,           \* the values returned so far, each call fed the last
    \* one call of ProjectAnalyzer._calculate_scores
    sc_response,       \* the response the signal groups are extracted from
    sc_pc,             \* "call" before the call, "return" after it
    analysis,          \* the argument: the signal groups
    scores,            \* the returned value
    \* one call of GrowthAnalyzer.analyze_project_growth
    ag_url,            \* the argument
    ag_pc,             \* "call", "get" while the GET is under way, then
                       \* "return"
    ag_get,            \* the URL handed to requests.get (None before)
    ag_soup,           \* local soup (None until a page is fetched)
    skills,            \* the returned value (None until the call returns)
    \* one run of GrowthDashboard.show_growth_dashboard
    gd_projects,       \* the argument: the project list
    gd_pc,             \* "start", "loop" (inside the for loop), "return"
                       \* or "raise" (an exception left the method)
    gd_i,              \* the index of the project the loop is at
    gd_calls,          \* every analyze_project_growth call so far: the
                       \* project index, the URL fetched and the value
                       \* returned
    growth_data,       \* local growth_data
    insights,          \* what _show_growth_insights computed (None until
                       \* it has run)
    \* the project list of the session and the operations on it
    projects,          \* st.session_state.projects
    tr_last            \* the last operation: its name, its arguments (for
                       \* analyze_projects, which of its analyze_url calls
                       \* fetched a page), the project list it found and
                       \* the value it returned

vars == <<url, pc, cleaned_url, alternative_urls, gets, response, result,
          cu_url, cu_outs, sc_response, sc_pc, analysis, scores,
          ag_url, ag_pc, ag_get, ag_soup, skills,
          gd_projects, gd_pc, gd_i, gd_calls, growth_data, insights,
          projects, tr_last>>

analyzeVars == <<url, pc, cleaned_url, alternative_urls, gets, response, result>>
cleanVars == <<cu_url, cu_outs>>
scoreVars == <<sc_response, sc_pc, analysis, scores>>
growthVars == <<ag_url, ag_pc, ag_get, ag_soup, skills>>
dashboardVars == <<gd_projects, gd_pc, gd_i, gd_calls, growth_data, insights>>
trackerVars == <<projects, tr_last>>

None == "None"

-----------------------------------------------------------------------------
(* Python str operations, on sequences of characters *)

\* str.startswith(p)
StartsWith(s, p) ==
    /\ Len(s) >= Len(p)
    /\ SubSeq(s, 1, Len(p)) = p

\* p in s, for a non-empty p
Contains(s, p) ==
    \E i \in 1..(Len(s) - Len(p) + 1) : SubSeq(s, i, i + Len(p) - 1) = p

\* s.replace(p, ''): the non-overlapping occurrences of p, found left to right
RECURSIVE Replace(_, _)
Replace(s, p) ==
    IF s = <<>> THEN <<>>
    ELSE IF StartsWith(s, p) THEN Replace(SubSeq(s, Len(p) + 1, Len(s)), p)
    ELSE <<Head(s)>> \o Replace(Tail(s), p)

\* s.rstrip(c) for one character c
RECURSIVE RStrip(_, _)
RStrip(s, c) ==
    IF s # <<>> /\ s[Len(s)] = c THEN RStrip(SubSeq(s, 1, Len(s) - 1), c)
    ELSE s

\* s.split(c) for one character c: always at least one part
RECURSIVE Split(_, _)
Split(s, c) ==
    IF \A i \in 1..Len(s) : s[i] # c THEN <<s>>
    ELSE LET k == CHOOSE i \in 1..Len(s) :
                      s[i] = c /\ \A j \in 1..(i - 1) : s[j] # c
         IN  <<SubSeq(s, 1, k - 1)>> \o Split(SubSeq(s, k + 1, Len(s)), c)

\* the string literals of the source
HTTPS == <<"h", "t", "t", "p", "s", ":", "/", "/">>
HTTP == <<"h", "t", "t", "p", ":", "/", "/">>
HTTPS_PREFIX == <<"h", "t", "t", "p", "s">>
VERCEL_COM == <<"v", "e", "r", "c", "e", "l", ".", "c", "o", "m">>
VERCEL_APP == <<".", "v", "e", "r", "c", "e", "l", ".", "a", "p", "p">>
PROJECTS == <<"p", "r", "o", "j", "e", "c", "t", "s">>

-----------------------------------------------------------------------------
(* ProjectAnalyzer.clean_url *)

\* url.replace('https://', '').replace('http://', '')
StripSchemes(u) == Replace(Replace(u, HTTPS), HTTP)

\* the for loop over enumerate(parts): the first part (0-based i) that is
\* 'projects' or contains 'vercel.com' and has a part after it; 0 when the
\* loop ends without returning
VercelIndex(parts) ==
    LET hit(i) == /\ i + 1 <= Len(parts)
                  /\ (parts[i] = PROJECTS \/ Contains(parts[i], VERCEL_COM))
    IN  IF \E i \in 1..Len(parts) : hit(i)
        THEN CHOOSE i \in 1..Len(parts) : hit(i) /\ \A j \in 1..(i - 1) : ~hit(j)
        ELSE 0

clean_url(u) ==
    LET parts == Split(u, "/")
        i == VercelIndex(parts)
    IN  IF Contains(u, VERCEL_COM) /\ i # 0
        THEN HTTPS \o parts[i + 1] \o VERCEL_APP
        ELSE HTTPS \o RStrip(StripSchemes(u), "/")


-----------------------------------------------------------------------------
(* The arguments clean_url is called with *)

MaxPieces == 4

Pieces ==
    { HTTPS, HTTP, <<"h", "t">>, <<"t", "p", "s", ":", "/", "/">>, <<"/">>,
      <<"a">>, <<"b", "/">>, VERCEL_COM, PROJECTS \o <<"/">> }

RECURSIVE PieceStrings(_)
PieceStrings(n) ==
    IF n = 0 THEN {<<>>}
    ELSE LET prev == PieceStrings(n - 1)
         IN  prev \cup {s \o p : s \in prev, p \in Pieces}

MYAPP == <<"m", "y", "a", "p", "p", ".", "e", "x", "a", "m", "p", "l", "e",
           ".", "c", "o", "m">>

\* longer arguments: the documented examples and the dashboard URL forms
Examples ==
    { MYAPP,
      HTTPS \o MYAPP \o <<"/">>,
      HTTPS \o VERCEL_COM \o <<"/", "b", "/", "a">>,
      HTTPS \o VERCEL_COM \o <<"/", "b", "/">> \o PROJECTS \o <<"/", "a">>,
      HTTPS \o MYAPP \o <<"/", "?", "u", "=">> \o HTTP \o <<"a">> }

CleanInputs == PieceStrings(MaxPieces) \cup Examples

CleanStart ==
    /\ cu_url \in CleanInputs
    /\ cu_outs = <<>>

\* clean_url called on the argument, then on what the last call returned
CleanUrl ==
    /\ Len(cu_outs) < 2
    /\ cu_outs' = Append(cu_outs,
                         clean_url(IF cu_outs = <<>> THEN cu_url
                                   ELSE cu_outs[Len(cu_outs)]))
    /\ UNCHANGED cu_url

-----------------------------------------------------------------------------
(* Feature extraction.  A parsed page (soup) is a record:                  *)
(*   html     whether the document has an <html> element                   *)
(*   lang     the lang attribute of <html> (None when it has none)         *)
(*   title    the string of <title> (None when there is no <title>)        *)
(*   meta_description, meta_keywords                                       *)
(*            the content attributes of the <meta name=...> elements, in   *)
(*            document order (None for an element without content)         *)
(*   h1, h2, h3, a, p, label, aria, words   element and word counts        *)
(*   imgs     the alt attributes of the <img> elements, in document order  *)
(*   markers  the substrings of str(soup).lower() among those tested       *)
(* A response is a record: status, elapsed (microseconds), content_len     *)
(* (bytes), headers (a function from lower-case header names to values),   *)
(* url (the final URL) and soup (its parsed text).                         *)

\* Python truthiness of an optional string
Truthy(v) == v # None /\ v # ""

First(seq) == IF seq = <<>> THEN None ELSE seq[1]

CountTruthy(seq) == Cardinality({i \in 1..Len(seq) : Truthy(seq[i])})

_analyze_seo(soup) ==
    [ meta_description |-> First(soup.meta_description),
      meta_keywords |-> First(soup.meta_keywords),
      h1_count |-> soup.h1,
      has_robots_txt |-> "robots" \in soup.markers,
      has_sitemap |-> "sitemap" \in soup.markers,
      image_alt_texts |-> CountTruthy(soup.imgs) ]

_detect_technologies(soup) ==
    LET m == soup.markers
    IN  [ frontend |-> {t \in {"React", "Vue.js", "Angular"} :
                          \/ t = "React" /\ ("react" \in m \/ "jsx" \in m)
                          \/ t = "Vue.js" /\ "vue" \in m
                          \/ t = "Angular" /\ "angular" \in m},
          frameworks |-> {t \in {"Next.js", "Nuxt.js", "Gatsby"} :
                          \/ t = "Next.js" /\ "next" \in m
                          \/ t = "Nuxt.js" /\ "nuxt" \in m
                          \/ t = "Gatsby" /\ "gatsby" \in m},
          libraries |-> {t \in {"Tailwind CSS", "Bootstrap", "jQuery"} :
                          \/ t = "Tailwind CSS" /\ "tailwind" \in m
                          \/ t = "Bootstrap" /\ "bootstrap" \in m
                          \/ t = "jQuery" /\ "jquery" \in m},
          analytics |-> {t \in {"Google Analytics"} :
                          "ga.js" \in m \/ "analytics" \in m} ]

\* str.lower() on the characters header values are made of here
LowerChar(c) ==
    CASE c = "G" -> "g" [] c = "Z" -> "z" [] c = "I" -> "i" [] c = "P" -> "p"
      [] OTHER -> c

Lower(s) == [i \in 1..Len(s) |-> LowerChar(s[i])]

GZIP == <<"g", "z", "i", "p">>

\* headers.get(name, default)
HeaderGet(headers, name, default) ==
    IF name \in DOMAIN headers THEN headers[name] ELSE default

\* page_size is kept in bytes (the source divides by 1024 and compares the
\* quotient with 5000); load_time is kept in microseconds
_analyze_performance(resp) ==
    [ page_size |-> resp.content_len,
      load_time |-> resp.elapsed,
      content_type |-> HeaderGet(resp.headers, "content-type", None),
      compression |-> Contains(Lower(HeaderGet(resp.headers, "content-encoding", <<>>)), GZIP),
      cache_control |-> HeaderGet(resp.headers, "cache-control", None) ]

_analyze_security(resp) ==
    [ has_https |-> StartsWith(resp.url, HTTPS_PREFIX),
      has_hsts |-> "strict-transport-security" \in DOMAIN resp.headers,
      has_xss_protection |-> "x-xss-protection" \in DOMAIN resp.headers,
      has_content_security |-> "content-security-policy" \in DOMAIN resp.headers,
      has_x_frame_options |-> "x-frame-options" \in DOMAIN resp.headers ]

\* soup.find('html').get('lang') raises AttributeError when find returns None
AccessibilityRaises(soup) == ~soup.html

_analyze_accessibility(soup) ==
    [ has_lang |-> Truthy(soup.lang),
      has_aria_labels |-> soup.aria,
      has_skip_links |-> "skip" \in soup.markers,
      form_labels |-> soup.label,
      image_alts |-> CountTruthy(soup.imgs) ]

_analyze_content(soup) ==
    [ word_count |-> soup.words,
      headings |-> [h1 |-> soup.h1, h2 |-> soup.h2, h3 |-> soup.h3],
      links |-> soup.a,
      images |-> Len(soup.imgs),
      paragraphs |-> soup.p ]

-----------------------------------------------------------------------------
(* ProjectAnalyzer._calculate_scores *)

Max(a, b) == IF a >= b THEN a ELSE b

\* SeoScore with the h1 test written as "at least one"
SeoScore_anyH1(seo) ==
      (IF Truthy(seo.meta_description) THEN 20 ELSE 0)
    + (IF Truthy(seo.meta_keywords) THEN 15 ELSE 0)
    + (IF seo.h1_count >= 1 THEN 15 ELSE 0)
    + (IF seo.has_robots_txt THEN 15 ELSE 0)
    + (IF seo.has_sitemap THEN 15 ELSE 0)
    + (IF seo.image_alt_texts > 0 THEN 20 ELSE 0)

SeoScore(seo) ==
      (IF Truthy(seo.meta_description) THEN 20 ELSE 0)
    + (IF Truthy(seo.meta_keywords) THEN 15 ELSE 0)
    + (IF seo.h1_count = 1 THEN 15 ELSE 0)
    + (IF seo.has_robots_txt THEN 15 ELSE 0)
    + (IF seo.has_sitemap THEN 15 ELSE 0)
    + (IF seo.image_alt_texts > 0 THEN 20 ELSE 0)

\* PerfScore with the load-time test written as "at least 2 s"
PerfScore_fromTwoSeconds(perf) ==
    Max(0, 100 - (IF perf.load_time >= 2 * 1000000 THEN 30 ELSE 0)
               - (IF perf.page_size > 5000 * 1024 THEN 30 ELSE 0)
               - (IF ~perf.compression THEN 20 ELSE 0))

PerfScore(perf) ==
    Max(0, 100 - (IF perf.load_time > 2 * 1000000 THEN 30 ELSE 0)
               - (IF perf.page_size > 5000 * 1024 THEN 30 ELSE 0)
               - (IF ~perf.compression THEN 20 ELSE 0))

\* SecScore with the weights of HSTS and CSP exchanged
SecScore_weightsExchanged(sec) ==
      (IF sec.has_https THEN 30 ELSE 0)
    + (IF sec.has_hsts THEN 15 ELSE 0)
    + (IF sec.has_xss_protection THEN 20 ELSE 0)
    + (IF sec.has_content_security THEN 20 ELSE 0)
    + (IF sec.has_x_frame_options THEN 15 ELSE 0)

SecScore(sec) ==
      (IF sec.has_https THEN 30 ELSE 0)
    + (IF sec.has_hsts THEN 20 ELSE 0)
    + (IF sec.has_xss_protection THEN 20 ELSE 0)
    + (IF sec.has_content_security THEN 15 ELSE 0)
    + (IF sec.has_x_frame_options THEN 15 ELSE 0)

\* _calculate_scores with the mean rounded to the nearest integer
_calculate_scores_rounded(an) ==
    LET seo == SeoScore(an.seo)
        performance == PerfScore(an.performance)
        security == SecScore(an.security)
    IN  [ seo |-> seo,
          performance |-> performance,
          security |-> security,
          overall |-> (2 * (seo + performance + security) + 3) \div 6 ]

_calculate_scores(an) ==
    LET seo == SeoScore(an.seo)
        performance == PerfScore(an.performance)
        security == SecScore(an.security)
    IN  [ seo |-> seo,
          performance |-> performance,
          security |-> security,
          overall |-> (seo + performance + security) \div 3 ]

-----------------------------------------------------------------------------
(* The pages and responses the extraction and the scores are applied to *)

MaxH1 == 2
MaxImgs == 2

BasePage ==
    [ html |-> TRUE, lang |-> "en", title |-> "T",
      meta_description |-> <<>>, meta_keywords |-> <<>>,
      h1 |-> 0, h2 |-> 0, h3 |-> 0, a |-> 0, p |-> 0, label |-> 0, aria |-> 0,
      words |-> 0, imgs |-> <<>>, markers |-> {} ]

BaseResponse ==
    [ status |-> 200, elapsed |-> 100000, content_len |-> 1024,
      headers |-> <<>>, url |-> HTTPS \o <<"a">>, soup |-> BasePage ]

\* the content attributes of the <meta name=...> elements of a page
MetaContents == { <<>>, <<None>>, <<"">>, <<"x">>, <<"", "x">> }

RECURSIVE AltSeqs(_)
AltSeqs(n) ==
    IF n = 0 THEN {<<>>}
    ELSE LET prev == AltSeqs(n - 1)
         IN  prev \cup {Append(s, v) : s \in prev, v \in {None, "", "y"}}

SeoPages ==
    { [BasePage EXCEPT !.meta_description = d, !.meta_keywords = k, !.h1 = h,
                       !.imgs = im, !.markers = m] :
        d \in MetaContents, k \in MetaContents, h \in 0..MaxH1,
        im \in AltSeqs(MaxImgs), m \in SUBSET {"robots", "sitemap"} }

SeoResponses == { [BaseResponse EXCEPT !.soup = pg] : pg \in SeoPages }

ContentEncodings ==
    { <<"g", "z", "i", "p">>, <<"G", "Z", "I", "P">>, <<"b", "r">>,
      <<"x", "-", "g", "z", "i", "p">>, <<>> }

HeaderSets ==
    { <<>> } \cup
    { [h \in {"content-encoding"} |-> e] : e \in ContentEncodings }

PerfResponses ==
    { [BaseResponse EXCEPT !.elapsed = t, !.content_len = n, !.headers = hs] :
        t \in {0, 1999999, 2000000, 2000001, 10000000},
        n \in {0, 5119999, 5120000, 5120001},
        hs \in HeaderSets }

\* the header names _analyze_security tests and one it does not
SecurityHeaderNames ==
    { "strict-transport-security", "x-xss-protection",
      "content-security-policy", "x-frame-options" }

OtherHeaderNames == { "content-security-policy-report-only" }

\* responses with any of these headers, from an https or an http final URL
SecResponses ==
    { [BaseResponse EXCEPT !.url = u, !.headers = [h \in names |-> <<"0">>]] :
        u \in {HTTPS \o <<"a">>, HTTP \o <<"a">>},
        names \in SUBSET (SecurityHeaderNames \cup OtherHeaderNames) }

\* responses that vary the SEO, the performance and the security signals
\* together, and the signals no score reads
TripleResponses ==
    { [ status |-> 200, elapsed |-> t, content_len |-> 1024,
        headers |-> [h \in names \cup enc |-> IF h \in enc THEN GZIP ELSE <<"0">>],
        url |-> u,
        soup |-> [BasePage EXCEPT !.meta_description = d,
                                  !.h1 = h1, !.markers = m,
                                  !.lang = other[1], !.words = other[2],
                                  !.label = other[2]] ] :
        t \in {2000000, 2000001}, enc \in {{}, {"content-encoding"}},
        names \in SUBSET {"strict-transport-security", "x-frame-options"},
        u \in {HTTPS \o <<"a">>, HTTP \o <<"a">>},
        d \in {<<>>, <<"x">>}, h1 \in {0, 1}, m \in SUBSET {"robots"},
        other \in {<<None, 0>>, <<"en", 5>>} }

ScoreInputs == SeoResponses \cup PerfResponses \cup SecResponses \cup TripleResponses

ScoreStart ==
    /\ sc_response \in ScoreInputs
    /\ sc_pc = "call"
    /\ analysis = None
    /\ scores = None

\* the signal groups, extracted as analyze_url does, and the call of
\* _calculate_scores on them
CalculateScores ==
    /\ sc_pc = "call"
    /\ analysis' = [ seo |-> _analyze_seo(sc_response.soup),
                     technologies |-> _detect_technologies(sc_response.soup),
                     performance |-> _analyze_performance(sc_response),
                     security |-> _analyze_security(sc_response),
                     accessibility |-> _analyze_accessibility(sc_response.soup),
                     content |-> _analyze_content(sc_response.soup) ]
    /\ scores' = _calculate_scores(analysis')
    /\ sc_pc' = "return"
    /\ UNCHANGED sc_response

-----------------------------------------------------------------------------
(* ProjectAnalyzer.analyze_url *)

MaxUrlPieces == 2

UrlPieces == { HTTPS, HTTP, <<"a">>, <<"/">>, VERCEL_COM \o <<"/">> }

RECURSIVE UrlStrings(_)
UrlStrings(n) ==
    IF n = 0 THEN {<<>>}
    ELSE LET prev == UrlStrings(n - 1)
         IN  prev \cup {s \o q : s \in prev, q \in UrlPieces}

UrlInputs == UrlStrings(MaxUrlPieces)

\* an empty body, a body that is not HTML, the documented example page and a
\* page with every SEO contributor and no lang attribute
Pages ==
    { [BasePage EXCEPT !.html = FALSE, !.lang = None, !.title = None],
      [BasePage EXCEPT !.html = FALSE, !.lang = None, !.title = None,
                       !.words = 3, !.markers = {"next", "analytics"}],
      [BasePage EXCEPT !.meta_description = <<"x">>, !.h1 = 1, !.imgs = <<"y">>,
                       !.words = 2],
      [BasePage EXCEPT !.lang = None, !.title = None,
                       !.meta_description = <<"x">>, !.meta_keywords = <<"x">>,
                       !.h1 = 1, !.imgs = <<"", "y">>, !.a = 1, !.p = 1,
                       !.markers = {"robots", "sitemap", "react", "skip"}] }

SecureHeaders ==
    [ h \in {"strict-transport-security", "x-xss-protection",
             "content-security-policy", "x-frame-options",
             "content-encoding"} |-> GZIP ]

\* what a GET on u can return: any status, page and headers, fast and small
\* or slow and large, from u itself or after a redirect
Responses(u) ==
    { [ status |-> st, elapsed |-> perf[1], content_len |-> perf[2],
        headers |-> hs, url |-> final, soup |-> pg ] :
        st \in {200, 404, 500},
        perf \in {<<100000, 1024>>, <<2000001, 5120001>>},
        hs \in {<<>>, SecureHeaders},
        final \in {u, HTTP \o <<"b">>},
        pg \in Pages }

FetchStates == <<"PRIMARY", "ALT_HTTPS", "ALT_HTTP", "ALT_COERCED">>

\* alternative_urls with the http:// candidate put first
AlternativeUrls_httpFirst(u) ==
    << HTTP \o StripSchemes(u),
       HTTPS \o StripSchemes(u),
       IF StartsWith(u, HTTP) \/ StartsWith(u, HTTPS) THEN u ELSE HTTPS \o u >>

\* alternative_urls without the coerced input
AlternativeUrls_noCoerced(u) ==
    << HTTPS \o StripSchemes(u), HTTP \o StripSchemes(u) >>

\* the list alternative_urls
AlternativeUrls(u) ==
    << HTTPS \o StripSchemes(u),
       HTTP \o StripSchemes(u),
       IF StartsWith(u, HTTP) \/ StartsWith(u, HTTPS) THEN u ELSE HTTPS \o u >>

\* the attempted URLs reported without the primary one
TriedUrls_fallbacksOnly(cleaned, alts) == alts

\* [cleaned_url] + alternative_urls
TriedUrls(cleaned, alts) == <<cleaned>> \o alts

COULD_NOT_CONNECT == "Could not connect to any URL variation. Please check if the project is deployed and accessible."
SUGGESTIONS == "Please try the following: ..."

\* the exception the for loop's else clause raises
UnreachableError(u, cleaned, alts) ==
    [ type |-> "Exception", message |-> COULD_NOT_CONNECT,
      original |-> u, tried |-> TriedUrls(cleaned, alts) ]

\* an exception of requests.get that is not a RequestException
UnicodeError ==
    [ type |-> "UnicodeError",
      message |-> "encoding with 'idna' codec failed" ]

AttributeError ==
    [ type |-> "AttributeError",
      message |-> "'NoneType' object has no attribute 'get'" ]

\* the body of the outer try from the parse on: the value it returns, or the
\* exception it raises
AnalyzeResponse(cleaned, resp) ==
    LET soup == resp.soup
        groups == [ basic_info |->
                      [ url |-> cleaned,
                        status |-> resp.status,
                        response_time |-> resp.elapsed,
                        title |-> IF soup.title # None THEN soup.title
                                  ELSE "No title found" ],
                    seo |-> _analyze_seo(soup),
                    technologies |-> _detect_technologies(soup),
                    performance |-> _analyze_performance(resp),
                    security |-> _analyze_security(resp),
                    accessibility |-> _analyze_accessibility(soup),
                    content |-> _analyze_content(soup) ]
    IN  IF AccessibilityRaises(soup)
        THEN [raised |-> TRUE, exc |-> AttributeError]
        ELSE [raised |-> FALSE,
              value |-> [ basic_info |-> groups.basic_info,
                          seo |-> groups.seo,
                          technologies |-> groups.technologies,
                          performance |-> groups.performance,
                          security |-> groups.security,
                          accessibility |-> groups.accessibility,
                          content |-> groups.content,
                          scores |-> _calculate_scores(groups) ]]

\* a handler that catches only the exception the fetch loop raises: any
\* other exception leaves analyze_url
ExceptException_fetchOnly(outcome) ==
    IF outcome.raised /\ outcome.exc.type = "Exception"
    THEN [error |-> outcome.exc, suggestions |-> "Please try the following: ..."]
    ELSE IF outcome.raised THEN [propagated |-> outcome.exc]
    ELSE outcome.value

\* except Exception as e: return {'error': str(e), 'suggestions': ...}
ExceptException(outcome) ==
    IF outcome.raised
    THEN [error |-> outcome.exc, suggestions |-> SUGGESTIONS]
    ELSE outcome.value

AnalyzeStart ==
    /\ url \in UrlInputs
    /\ pc = "idle"
    /\ cleaned_url = None
    /\ alternative_urls = <<>>
    /\ gets = <<>>
    /\ response = None
    /\ result = None

\* analyze_url up to the first requests.get
Call ==
    /\ pc = "idle"
    /\ cleaned_url' = clean_url(url)
    /\ pc' = FetchStates[1]
    /\ UNCHANGED <<url, alternative_urls, gets, response, result>>

Fetching == \E k \in 1..Len(FetchStates) : pc = FetchStates[k]

StateIndex == CHOOSE k \in 1..Len(FetchStates) : pc = FetchStates[k]

\* the URL of the requests.get that is under way
CurrentUrl ==
    IF StateIndex = 1 THEN cleaned_url ELSE alternative_urls[StateIndex - 1]

\* the GET under way raises a RequestException: the next candidate is
\* tried, or the loop ends and the outer handler returns the error
GetFails ==
    /\ Fetching
    /\ LET alts == IF StateIndex = 1 THEN AlternativeUrls(url)
                   ELSE alternative_urls
       IN  /\ alternative_urls' = alts
           /\ gets' = Append(gets, [state |-> pc, url |-> CurrentUrl,
                                    outcome |-> "RequestException",
                                    response |-> None])
           /\ IF StateIndex - 1 < Len(alts)
              THEN /\ pc' = FetchStates[StateIndex + 1]
                   /\ UNCHANGED result
              ELSE /\ pc' = "FAILED"
                   /\ result' = ExceptException(
                          [raised |-> TRUE,
                           exc |-> UnreachableError(url, cleaned_url, alts)])
    /\ UNCHANGED <<url, cleaned_url, response>>

\* the GET under way returns a response: it is parsed and analysed and
\* analyze_url returns
GetReturns ==
    /\ Fetching
    /\ \E resp \in Responses(CurrentUrl) :
          /\ gets' = Append(gets, [state |-> pc, url |-> CurrentUrl,
                                   outcome |-> "response", response |-> resp])
          /\ response' = resp
          /\ cleaned_url' = CurrentUrl
          /\ result' = ExceptException(AnalyzeResponse(cleaned_url', resp))
          /\ pc' = "DONE"
    /\ UNCHANGED <<url, alternative_urls>>

\* the GET under way raises an exception that is no RequestException (the
\* UnicodeError of a host label that cannot be encoded): the inner handler
\* does not catch it, no candidate is tried and the outer handler returns
\* the error
GetRaisesOther ==
    /\ Fetching
    /\ gets' = Append(gets, [state |-> pc, url |-> CurrentUrl,
                             outcome |-> UnicodeError.type, response |-> None])
    /\ result' = ExceptException([raised |-> TRUE, exc |-> UnicodeError])
    /\ pc' = "RAISED"
    /\ UNCHANGED <<url, cleaned_url, alternative_urls, response>>

-----------------------------------------------------------------------------
(* Specifications *)

IdleAnalyze ==
    /\ url = <<>> /\ pc = "off" /\ cleaned_url = None /\ alternative_urls = <<>>
    /\ gets = <<>> /\ response = None /\ result = None

IdleClean == cu_url = <<>> /\ cu_outs = <<>>

IdleScore ==
    /\ sc_response = None /\ sc_pc = "off" /\ analysis = None /\ scores = None

\* analyze_url
IdleGrowth ==
    /\ ag_url = <<>> /\ ag_pc = "off" /\ ag_get = None /\ ag_soup = None
    /\ skills = None

IdleDashboard ==
    /\ gd_projects = <<>> /\ gd_pc = "off" /\ gd_i = 0 /\ gd_calls = <<>>
    /\ growth_data = <<>> /\ insights = None

IdleTracker == projects = <<>> /\ tr_last = None

IdleSession == IdleGrowth /\ IdleDashboard /\ IdleTracker

sessionVars == <<growthVars, dashboardVars, trackerVars>>

Init == AnalyzeStart /\ IdleClean /\ IdleScore /\ IdleSession

Next ==
    \/ Call /\ UNCHANGED <<cleanVars, scoreVars, sessionVars>>
    \/ GetFails /\ UNCHANGED <<cleanVars, scoreVars, sessionVars>>
    \/ GetReturns /\ UNCHANGED <<cleanVars, scoreVars, sessionVars>>
    \/ GetRaisesOther /\ UNCHANGED <<cleanVars, scoreVars, sessionVars>>

Spec == Init /\ [][Next]_vars

\* clean_url
NextClean == CleanUrl /\ UNCHANGED <<analyzeVars, scoreVars, sessionVars>>

InitClean == CleanStart /\ IdleAnalyze /\ IdleScore /\ IdleSession

SpecClean == InitClean /\ [][NextClean]_vars

\* _calculate_scores
NextScore == CalculateScores /\ UNCHANGED <<analyzeVars, cleanVars, sessionVars>>

InitScore == ScoreStart /\ IdleAnalyze /\ IdleClean /\ IdleSession

SpecScore == InitScore /\ [][NextScore]_vars

-----------------------------------------------------------------------------
(* Properties of analyze_url, checked under Spec *)

ErrorKeys == {"error", "suggestions"}

SuccessKeys ==
    {"basic_info", "seo", "technologies", "performance", "security",
     "accessibility", "content", "scores"}

Returned == pc \in {"DONE", "FAILED", "RAISED"}

\* how the i-th GET ended
Failed(i) == gets[i].outcome = "RequestException"
Succeeded(i) == gets[i].outcome = "response"

IsUnreachable(r) ==
    /\ "error" \in DOMAIN r
    /\ r.error.message = COULD_NOT_CONNECT

\* the candidates in the order the fetcher is to try them: the normalized
\* URL, then (a) https:// + scheme-stripped input, (b) http:// + the same,
\* (c) the input coerced to have a scheme
Candidates(u) ==
    << clean_url(u),
       HTTPS \o Replace(Replace(u, HTTPS), HTTP),
       HTTP \o Replace(Replace(u, HTTPS), HTTP),
       IF StartsWith(u, HTTP) \/ StartsWith(u, HTTPS) THEN u ELSE HTTPS \o u >>

\* C1: the GETs of one call are issued in the order PRIMARY, ALT_HTTPS,
\* ALT_HTTP, ALT_COERCED, each on its own candidate URL and only after every
\* earlier one failed; none is issued after the first success; at most four
\* are issued; the response analysed is that of the first successful GET;
\* FAILED is entered only after the four failures.
C1_FallbackOrder ==
    LET n == Len(gets)
    IN  /\ n <= 4
        /\ \A i \in 1..n : /\ gets[i].state = FetchStates[i]
                           /\ gets[i].url = Candidates(url)[i]
        /\ \A i \in 1..(n - 1) : Failed(i)
        /\ pc = "idle" => n = 0
        /\ \A k \in 1..4 : pc = FetchStates[k] =>
               n = k - 1 /\ \A i \in 1..n : Failed(i)
        /\ pc = "FAILED" => n = 4 /\ Failed(4)
        /\ pc = "RAISED" => n >= 1 /\ ~Failed(n) /\ ~Succeeded(n)
        /\ pc = "DONE" =>
               /\ n >= 1 /\ Succeeded(n)
               /\ response = gets[n].response
               /\ cleaned_url = gets[n].url
               /\ DOMAIN result = SuccessKeys =>
                      /\ result.basic_info.url = gets[n].url
                      /\ result.basic_info.status = gets[n].response.status

\* a call that fell back twice and stopped at the first success
C1_Witness ==
    /\ pc = "DONE"
    /\ Len(gets) = 3
    /\ Failed(1) /\ Failed(2) /\ Succeeded(3)
    /\ gets[3].url # gets[1].url

\* C2: the "Could not connect to any URL variation" error is returned only
\* after the primary GET and each of the three fallback GETs has failed; a
\* call in which any GET returned a response returns no such error.
C2_UnreachableOnlyAfterAll ==
    Returned =>
        /\ IsUnreachable(result) =>
               /\ Len(gets) = 4
               /\ \A i \in 1..4 : gets[i].state = FetchStates[i] /\ Failed(i)
        /\ (\E i \in 1..Len(gets) : ~Failed(i)) => ~IsUnreachable(result)

\* all four GETs failed and the unreachable error is returned
C2_Witness ==
    /\ pc = "FAILED"
    /\ IsUnreachable(result)
    /\ Len(gets) = 4

\* C3: when every GET fails, the error carries the original input and the
\* list of the URLs a GET was issued on, in the order they were issued.
C3_ErrorListsAttempts ==
    pc = "FAILED" =>
        /\ IsUnreachable(result)
        /\ result.error.original = url
        /\ result.error.tried = [i \in 1..Len(gets) |-> gets[i].url]
        /\ Len(result.error.tried) = 4

\* an unreachable input whose attempted URLs are not all the same
C3_Witness ==
    /\ pc = "FAILED"
    /\ Len(result.error.tried) = 4
    /\ Cardinality({result.error.tried[i] : i \in 1..4}) >= 3
    /\ result.error.tried[1] # result.error.tried[4]

\* C4: whatever the input and whatever the GETs do, the value analyze_url
\* returns is exactly one of the error variant (error, suggestions) and the
\* success variant (basic info, the six signal groups, scores).
C4_ExactlyOneVariant ==
    Returned =>
        /\ DOMAIN result = ErrorKeys \/ DOMAIN result = SuccessKeys
        /\ DOMAIN result = SuccessKeys => DOMAIN result.scores =
               {"seo", "performance", "security", "overall"}

\* a fetched page on which the extraction raised: the error variant, though
\* a GET succeeded
C4_Witness ==
    /\ pc = "DONE"
    /\ DOMAIN result = ErrorKeys
    /\ result.error.type = "AttributeError"

\* C5: a GET that returns a response of any status ends the fetching, the
\* success variant is returned and basic_info.status is that status.
C5_AnyStatusIsSuccess ==
    \A i \in 1..Len(gets) : Succeeded(i) =>
        /\ i = Len(gets)
        /\ pc = "DONE"
        /\ DOMAIN result = SuccessKeys
        /\ result.basic_info.status = gets[i].response.status

-----------------------------------------------------------------------------
(* Properties of clean_url, checked under SpecClean *)

\* C6: clean_url is idempotent, and gives https://myapp.example.com for
\* myapp.example.com and for https://myapp.example.com/.
C6_Idempotent ==
    /\ Len(cu_outs) = 2 => cu_outs[2] = cu_outs[1]
    /\ (Len(cu_outs) >= 1 /\ cu_url \in {MYAPP, HTTPS \o MYAPP \o <<"/">>})
           => cu_outs[1] = HTTPS \o MYAPP

\* the argument with only its leading scheme removed
StripLeadingScheme(u) ==
    IF StartsWith(u, HTTPS) THEN SubSeq(u, Len(HTTPS) + 1, Len(u))
    ELSE IF StartsWith(u, HTTP) THEN SubSeq(u, Len(HTTP) + 1, Len(u))
    ELSE u

\* C7: for an argument without the dashboard marker, clean_url returns
\* https:// followed by the argument with only its leading scheme and its
\* trailing slashes removed, every other character kept.
C7_OnlyLeadingSchemeRemoved ==
    (Len(cu_outs) >= 1 /\ ~Contains(cu_url, VERCEL_COM)) =>
        cu_outs[1] = HTTPS \o RStrip(StripLeadingScheme(cu_url), "/")

\* the path segments after the host of a dashboard URL
DashboardPath(u) == Tail(Split(StripLeadingScheme(u), "/"))

\* a dashboard URL: vercel.com/<user>/<project> or
\* vercel.com/<user>/projects/<project>, with or without https://
IsDashboardUrl(u) ==
    LET parts == Split(StripLeadingScheme(u), "/")
    IN  /\ parts[1] = VERCEL_COM
        /\ \/ Len(parts) = 3 /\ parts[2] # <<>> /\ parts[3] # <<>>
                             /\ parts[2] # PROJECTS
           \/ Len(parts) = 4 /\ parts[2] # <<>> /\ parts[3] = PROJECTS
                             /\ parts[4] # <<>>

\* the segment of a dashboard URL that names the project
ProjectSegment(u) ==
    LET path == DashboardPath(u) IN path[Len(path)]

\* C8: for a dashboard URL, clean_url returns https://<project>.vercel.app
\* with <project> the non-empty segment naming the project.
C8_DashboardProject ==
    (Len(cu_outs) >= 1 /\ IsDashboardUrl(cu_url)) =>
        /\ ProjectSegment(cu_url) # <<>>
        /\ cu_outs[1] = HTTPS \o ProjectSegment(cu_url) \o VERCEL_APP

-----------------------------------------------------------------------------
(* Properties of _calculate_scores, checked under SpecScore *)

B(b) == IF b THEN 1 ELSE 0

\* the SEO contributors and their weights
SeoWeights ==
    [ meta_description |-> 20, meta_keywords |-> 15, h1_count |-> 15,
      has_robots_txt |-> 15, has_sitemap |-> 15, image_alt_texts |-> 20 ]

\* whether a contributor holds of SEO signals, a present string counting
\* only when it is not empty
SeoHolds(seo, c) ==
    CASE c = "meta_description" -> seo.meta_description \notin {None, ""}
      [] c = "meta_keywords" -> seo.meta_keywords \notin {None, ""}
      [] c = "h1_count" -> seo.h1_count = 1
      [] c = "has_robots_txt" -> seo.has_robots_txt
      [] c = "has_sitemap" -> seo.has_sitemap
      [] c = "image_alt_texts" -> seo.image_alt_texts >= 1

\* SEO signals with one contributor taken away
SeoWithout(seo, c) ==
    CASE c = "meta_description" -> [seo EXCEPT !.meta_description = None]
      [] c = "meta_keywords" -> [seo EXCEPT !.meta_keywords = None]
      [] c = "h1_count" -> [seo EXCEPT !.h1_count = 0]
      [] c = "has_robots_txt" -> [seo EXCEPT !.has_robots_txt = FALSE]
      [] c = "has_sitemap" -> [seo EXCEPT !.has_sitemap = FALSE]
      [] c = "image_alt_texts" -> [seo EXCEPT !.image_alt_texts = 0]

\* the page of the documented end-to-end example
IsExamplePage(soup) ==
    /\ soup.meta_description = <<"x">> /\ soup.meta_keywords = <<>>
    /\ soup.h1 = 1 /\ soup.imgs = <<"y">> /\ soup.markers = {}

\* C9 as stated: a meta description or meta keywords signal that is present
\* (not None) contributes its weight.
C9_PresentContributes ==
    sc_pc = "return" =>
        scores.seo = 20 * B(analysis.seo.meta_description # None)
                   + 15 * B(analysis.seo.meta_keywords # None)
                   + 15 * B(analysis.seo.h1_count = 1)
                   + 15 * B(analysis.seo.has_robots_txt)
                   + 15 * B(analysis.seo.has_sitemap)
                   + 20 * B(analysis.seo.image_alt_texts >= 1)

\* C9 (amended): seo = 20*[meta description present and not empty]
\* + 15*[meta keywords present and not empty] + 15*[h1 count = 1]
\* + 15*[robots hint] + 15*[sitemap hint] + 20*[an image with alt text]; it
\* is 100 when all six hold and never more; taking one contributor away
\* lowers it by that contributor's weight; the example page scores 55.
C9_SeoScore ==
    sc_pc = "return" =>
        LET seo == analysis.seo
            C == DOMAIN SeoWeights
        IN  /\ scores.seo = 20 * B(SeoHolds(seo, "meta_description"))
                          + 15 * B(SeoHolds(seo, "meta_keywords"))
                          + 15 * B(SeoHolds(seo, "h1_count"))
                          + 15 * B(SeoHolds(seo, "has_robots_txt"))
                          + 15 * B(SeoHolds(seo, "has_sitemap"))
                          + 20 * B(SeoHolds(seo, "image_alt_texts"))
            /\ scores.seo <= 100
            /\ (\A c \in C : SeoHolds(seo, c)) => scores.seo = 100
            /\ \A c \in C : SeoHolds(seo, c) =>
                   _calculate_scores([analysis EXCEPT !.seo = SeoWithout(seo, c)]).seo
                       = scores.seo - SeoWeights[c]
            /\ seo.image_alt_texts >= 1 <=>
                   \E i \in 1..Len(sc_response.soup.imgs) :
                       sc_response.soup.imgs[i] \notin {None, ""}
            /\ IsExamplePage(sc_response.soup) => scores.seo = 55

\* the example page, scored
C9_Witness ==
    /\ sc_pc = "return"
    /\ IsExamplePage(sc_response.soup)
    /\ scores.seo = 55

\* C10: performance = max(0, 100 - 30*[load time > 2 s]
\* - 30*[page size > 5000 KB] - 20*[not compressed]); it is within 0..100
\* and its lowest value, with all three penalties, is 20.
C10_PerformanceScore ==
    sc_pc = "return" =>
        LET perf == analysis.performance
            slow == sc_response.elapsed > 2000000
            large == sc_response.content_len > 5000 * 1024
            raw == 100 - 30 * B(slow) - 30 * B(large) - 20 * B(~perf.compression)
        IN  /\ perf.load_time = sc_response.elapsed
            /\ perf.page_size = sc_response.content_len
            /\ scores.performance = (IF raw < 0 THEN 0 ELSE raw)
            /\ scores.performance \in 0..100
            /\ scores.performance >= 20
            /\ (slow /\ large /\ ~perf.compression) <=> scores.performance = 20

\* a slow, large, uncompressed response, scored 20
C10_Witness ==
    /\ sc_pc = "return"
    /\ analysis.performance.load_time > 2000000
    /\ analysis.performance.page_size > 5000 * 1024
    /\ ~analysis.performance.compression
    /\ scores.performance = 20

\* C11: security = 30*[final URL is https] + 20*[strict-transport-security]
\* + 20*[x-xss-protection] + 15*[content-security-policy]
\* + 15*[x-frame-options], each flag set exactly when that header is in the
\* response (the final URL starts with https); the score is within 0..100.
C11_SecurityScore ==
    sc_pc = "return" =>
        LET sec == analysis.security
            has(h) == h \in DOMAIN sc_response.headers
        IN  /\ sec.has_https <=> StartsWith(sc_response.url, HTTPS)
            /\ sec.has_hsts <=> has("strict-transport-security")
            /\ sec.has_xss_protection <=> has("x-xss-protection")
            /\ sec.has_content_security <=> has("content-security-policy")
            /\ sec.has_x_frame_options <=> has("x-frame-options")
            /\ scores.security = 30 * B(StartsWith(sc_response.url, HTTPS))
                               + 20 * B(has("strict-transport-security"))
                               + 20 * B(has("x-xss-protection"))
                               + 15 * B(has("content-security-policy"))
                               + 15 * B(has("x-frame-options"))
            /\ scores.security \in 0..100

\* an http response with HSTS and a header that is not tested, scored 20
C11_Witness ==
    /\ sc_pc = "return"
    /\ DOMAIN sc_response.headers =
           {"strict-transport-security", "content-security-policy-report-only"}
    /\ ~analysis.security.has_https
    /\ scores.security = 20

\* C12: overall = floor((seo + performance + security) / 3), an integer in
\* 0..100 that only the three scores decide: the accessibility, content and
\* technology signals do not change it.
C12_OverallIsFloorOfMean ==
    sc_pc = "return" =>
        LET sum == scores.seo + scores.performance + scores.security
            others == [analysis EXCEPT
                          !.accessibility = _analyze_accessibility(BasePage),
                          !.content = _analyze_content(BasePage),
                          !.technologies = _detect_technologies(
                              [BasePage EXCEPT !.markers = {"react", "next"}])]
        IN  /\ scores.overall \in 0..100
            /\ 3 * scores.overall <= sum
            /\ sum < 3 * (scores.overall + 1)
            /\ _calculate_scores(others).overall = scores.overall

\* a score triple whose mean is no integer, rounded down
C12_Witness ==
    /\ sc_pc = "return"
    /\ (scores.seo + scores.performance + scores.security) % 3 = 2
    /\ scores.seo > 0 /\ scores.security > 0 /\ scores.performance < 100
    /\ analysis.content.word_count > 0

-----------------------------------------------------------------------------
(***************************************************************************)
(* GrowthAnalyzer.  A fetched page is a record of what the analyzer reads  *)
(* from it: the number of tags of each kind find_all counts, whether a     *)
(* <meta name="viewport"> is found, and content, the set of the            *)
(* indicator substrings that occur in str(soup).lower().                   *)
(*                                                                         *)
(* The complexity is a multiple of 0.1 and is held in tenths: 1000 is the  *)
(* complexity 100.  The rounding of the floating-point sum is left out.    *)
(***************************************************************************)
Min(a, b) == IF a <= b THEN a ELSE b

_analyze_frontend(soup, content) ==
    LET css_complexity == soup.style + soup.stylesheet_links
        js_complexity == soup.script
        media_queries == "media=" \in content \/ "@media" \in content
        viewport_meta == soup.viewport_meta
    IN  [ React |-> "react" \in content \/ "next" \in content,
          NextJs |-> "__next" \in content,
          CssScss |-> Min(css_complexity * 20, 100),
          JavaScript |-> Min(js_complexity * 15, 100),
          TypeScript |-> ".tsx" \in content \/ ".ts" \in content,
          ResponsiveDesign |-> IF media_queries /\ viewport_meta THEN 100
                               ELSE IF media_queries THEN 50 ELSE 0,
          UIFrameworks |-> \E fw \in {"tailwind", "bootstrap", "material-ui", "chakra"} :
                               fw \in content ]

_analyze_backend(soup, content) ==
    [ APIIntegration |-> \E ind \in {"fetch", "axios", "api", "graphql"} :
                             ind \in content,
      Database |-> \E ind \in {"mongodb", "postgresql", "mysql", "firebase", "supabase"} :
                       ind \in content,
      Authentication |-> \E ind \in {"auth", "login", "signup", "jwt", "session"} :
                             ind \in content,
      ServerManagement |-> \E ind \in {"express", "node", "server", "middleware"} :
                               ind \in content ]

_analyze_deployment(soup, content) ==
    [ Vercel |-> "vercel" \in content \/ ".vercel.app" \in content,
      CICD |-> \E ind \in {"github actions", "travis", "jenkins", "gitlab-ci"} :
                   ind \in content,
      EnvironmentSetup |-> \E ind \in {".env", "process.env", "environment variables"} :
                               ind \in content ]

\* the weighted sum of the factors, in tenths
ComplexityScore(soup) ==
      soup.components * 1 + soup.script * 3 + soup.style * 2 + soup.form * 5
    + soup.interactive * 3 + soup.img * 1 + soup.a * 1

\* _calculate_complexity without the clamp
_calculate_complexity_unclamped(soup) == ComplexityScore(soup)

_calculate_complexity(soup) == Min(ComplexityScore(soup), 1000)

\* the value analyze_project_growth returns for a page it fetched
GrowthSkills(soup) ==
    [ frontend |-> _analyze_frontend(soup, soup.content),
      backend |-> _analyze_backend(soup, soup.content),
      deployment |-> _analyze_deployment(soup, soup.content),
      complexity |-> _calculate_complexity(soup) ]

\* the value it returns when an exception is caught
GrowthError(e) == [ error |-> e ]

\* the URL analyze_project_growth hands to requests.get
GrowthFetchUrl(u) ==
    IF ~(StartsWith(u, HTTP) \/ StartsWith(u, HTTPS)) THEN HTTPS \o u ELSE u

ConnectionError == "ConnectionError"

\* a page with none of the tags and none of the indicators
EmptyGrowthPage ==
    [ components |-> 0, script |-> 0, style |-> 0, stylesheet_links |-> 0,
      form |-> 0, interactive |-> 0, img |-> 0, a |-> 0,
      viewport_meta |-> FALSE, content |-> {} ]

\* an indicator that contains another one cannot occur without it
SubstringClosed(content) ==
    /\ "__next" \in content => "next" \in content
    /\ ".tsx" \in content => ".ts" \in content
    /\ ".vercel.app" \in content => "vercel" \in content
    /\ "process.env" \in content => ".env" \in content

\* tag counts: none, one, and as many as reach the clamp on their own
TagCounts == {0, 1, 1000}

CountedPages ==
    { [EmptyGrowthPage EXCEPT !.components = c, !.script = sc, !.style = st,
                              !.form = f, !.interactive = i, !.img = im, !.a = l] :
        c \in TagCounts, sc \in TagCounts, st \in TagCounts, f \in TagCounts,
        i \in TagCounts, im \in TagCounts, l \in TagCounts }

IndicatorPages ==
    { [EmptyGrowthPage EXCEPT !.content = m, !.viewport_meta = v,
                              !.stylesheet_links = k, !.style = 1, !.script = sc] :
        m \in { x \in SUBSET {"next", "__next", "@media", ".ts", ".tsx", "api",
                              ".vercel.app", "vercel", "bootstrap"} :
                    SubstringClosed(x) },
        v \in BOOLEAN, k \in {0, 4}, sc \in {6, 7} }

SkillPages == CountedPages \cup IndicatorPages

GrowthUrls == { <<"a">>, HTTPS \o <<"b">>, HTTP \o <<"c">> }

GrowthStart ==
    /\ ag_url \in GrowthUrls
    /\ ag_pc = "call"
    /\ ag_get = None
    /\ ag_soup = None
    /\ skills = None

\* line 404-405: the scheme is added, then the GET is issued
GrowthCall ==
    /\ ag_pc = "call"
    /\ ag_get' = GrowthFetchUrl(ag_url)
    /\ ag_pc' = "get"
    /\ UNCHANGED <<ag_url, ag_soup, skills>>

\* requests.get raises: the except clause returns the error
GrowthGetRaises ==
    /\ ag_pc = "get"
    /\ skills' = GrowthError(ConnectionError)
    /\ ag_pc' = "return"
    /\ UNCHANGED <<ag_url, ag_get, ag_soup>>

\* requests.get returns a page: the skills are read from it
GrowthGetReturns ==
    /\ ag_pc = "get"
    /\ ag_soup' \in SkillPages
    /\ skills' = GrowthSkills(ag_soup')
    /\ ag_pc' = "return"
    /\ UNCHANGED <<ag_url, ag_get>>

otherThanGrowth == <<analyzeVars, cleanVars, scoreVars, dashboardVars, trackerVars>>

NextGrowth ==
    \/ GrowthCall /\ UNCHANGED otherThanGrowth
    \/ GrowthGetRaises /\ UNCHANGED otherThanGrowth
    \/ GrowthGetReturns /\ UNCHANGED otherThanGrowth

InitGrowth ==
    GrowthStart /\ IdleAnalyze /\ IdleClean /\ IdleScore /\ IdleDashboard /\ IdleTracker

\* one call of GrowthAnalyzer.analyze_project_growth
SpecGrowth == InitGrowth /\ [][NextGrowth]_vars

\* C13: _calculate_complexity returns min(100, 0.1*containers + 0.3*scripts
\* + 0.2*styles + 0.5*forms + 0.3*interactive + 0.1*images + 0.1*links) for
\* all counts, however large, so every complexity is within 0..100 (in
\* tenths: within 0..1000).
C13_ComplexityClamped ==
    (ag_pc = "return" /\ "error" \notin DOMAIN skills) =>
        LET sum == ag_soup.components + 3 * ag_soup.script + 2 * ag_soup.style
                   + 5 * ag_soup.form + 3 * ag_soup.interactive
                   + ag_soup.img + ag_soup.a
        IN  /\ skills.complexity = IF sum > 1000 THEN 1000 ELSE sum
            /\ skills.complexity \in 0..1000

\* a page whose weighted sum is far above 100, returned as 100
C13_Witness ==
    /\ ag_pc = "return" /\ "error" \notin DOMAIN skills
    /\ ag_soup.components = 1000 /\ ag_soup.form = 1000 /\ ag_soup.a = 1
    /\ skills.complexity = 1000

-----------------------------------------------------------------------------
(***************************************************************************)
(* GrowthDashboard.show_growth_dashboard.  Of a project the dashboard      *)
(* reads name, url and date_added.  date_added is the '%Y-%m-%d' text of   *)
(* the day the project was added; it is held as the number of that day,    *)
(* which is what the difference of two parsed dates is taken from.         *)
(*                                                                         *)
(* A number that need not be an integer is a fraction num/den, den > 0.    *)
(***************************************************************************)
ZeroDivisionError == "ZeroDivisionError"

Undefined == [ defined |-> FALSE, num |-> 0, den |-> 1 ]

Fraction(n, d) == [ defined |-> TRUE, num |-> n, den |-> d ]

\* analysis with the two keys lines 533-534 add
Snapshot(an, project) ==
    [ frontend |-> an.frontend, backend |-> an.backend,
      deployment |-> an.deployment, complexity |-> an.complexity,
      project_name |-> project.name, date |-> project.date_added ]

\* lines 532-535 with a failed analysis emptying growth_data
KeepSnapshot_failureEmpties(data, an, project) ==
    IF "error" \notin DOMAIN an THEN Append(data, Snapshot(an, project)) ELSE <<>>

\* lines 532-535: growth_data after the analysis of one project
KeepSnapshot(data, an, project) ==
    IF "error" \notin DOMAIN an THEN Append(data, Snapshot(an, project)) ELSE data

SetMax(S) == CHOOSE x \in S : \A y \in S : y <= x

SetMin(S) == CHOOSE x \in S : \A y \in S : x <= y

\* lines 610-612: the days from the earliest date to the latest
SpanDays(data) ==
    LET dates == { data[k].date : k \in 1..Len(data) }
    IN  SetMax(dates) - SetMin(dates)

\* lines 599-603: the growth rate, or the exception the division raises
GrowthRate(data) ==
    IF Len(data) > 1
    THEN LET first_complexity == data[1].complexity
             last_complexity == data[Len(data)].complexity
         IN  IF first_complexity = 0
             THEN [ raised |-> TRUE, exc |-> ZeroDivisionError ]
             ELSE [ raised |-> FALSE,
                    value |-> Fraction((last_complexity - first_complexity) * 100,
                                       first_complexity) ]
    ELSE [ raised |-> FALSE, value |-> Undefined ]

\* lines 610-614: max(0, 100 - (avg_days - 7) * 5) with
\* avg_days = SpanDays / (len(dates) - 1), over the denominator len(dates) - 1
Consistency(data) ==
    IF Len(data) > 1
    THEN Fraction(Max(0, 135 * (Len(data) - 1) - 5 * SpanDays(data)), Len(data) - 1)
    ELSE Undefined

\* what _show_growth_insights computes; nothing after the division that raises
_show_growth_insights(data) ==
    LET rate == GrowthRate(data)
    IN  IF rate.raised
        THEN [ raised |-> TRUE, exc |-> rate.exc,
               growth_rate |-> Undefined, consistency |-> Undefined ]
        ELSE [ raised |-> FALSE, exc |-> None,
               growth_rate |-> rate.value, consistency |-> Consistency(data) ]

MaxProjects == 3

Days == {0, 7, 35}

DashboardProjects ==
    { [ name |-> n[1], url |-> n[2], date_added |-> d ] :
        n \in { <<"p", <<"a">> >>, <<"q", HTTPS \o <<"b">> >> }, d \in Days }

\* project lists of the session: date_added never decreases along the list
ProjectLists ==
    { l \in UNION { [1..n -> DashboardProjects] : n \in 0..MaxProjects } :
        \A k \in 1..(Len(l) - 1) : l[k].date_added <= l[k + 1].date_added }

\* pages of complexity 0, 10 and 20
DashboardPages ==
    { [EmptyGrowthPage EXCEPT !.components = c] : c \in {0, 100, 200} }

DashboardStart ==
    /\ gd_projects \in ProjectLists
    /\ gd_pc = "start"
    /\ gd_i = 1
    /\ gd_calls = <<>>
    /\ growth_data = <<>>
    /\ insights = None

\* lines 521-523: no projects, nothing to analyse
DashboardEmpty ==
    /\ gd_pc = "start"
    /\ Len(gd_projects) = 0
    /\ gd_pc' = "return"
    /\ UNCHANGED <<gd_projects, gd_i, gd_calls, growth_data, insights>>

\* one turn of the loop of lines 530-535 for the returned analysis an and,
\* after the last project, lines 537-541
DashboardTurn(an) ==
    LET project == gd_projects[gd_i]
        data == KeepSnapshot(growth_data, an, project)
    IN  /\ growth_data' = data
        /\ gd_calls' = Append(gd_calls, [ index |-> gd_i,
                                          url |-> GrowthFetchUrl(project.url),
                                          analysis |-> an ])
        /\ gd_i' = gd_i + 1
        /\ IF gd_i < Len(gd_projects)
           THEN gd_pc' = "loop" /\ UNCHANGED insights
           ELSE IF Len(data) > 0
                THEN /\ insights' = _show_growth_insights(data)
                     /\ gd_pc' = IF insights'.raised THEN "raise" ELSE "return"
                ELSE gd_pc' = "return" /\ UNCHANGED insights
        /\ UNCHANGED gd_projects

\* analyze_project_growth catches an exception and returns the error
ProjectFails ==
    /\ gd_pc \in {"start", "loop"}
    /\ gd_i <= Len(gd_projects)
    /\ DashboardTurn(GrowthError(ConnectionError))

\* analyze_project_growth returns the skills of the page it fetched
ProjectAnalysed ==
    /\ gd_pc \in {"start", "loop"}
    /\ gd_i <= Len(gd_projects)
    /\ \E soup \in DashboardPages : DashboardTurn(GrowthSkills(soup))

otherThanDashboard == <<analyzeVars, cleanVars, scoreVars, growthVars, trackerVars>>

NextDashboard ==
    \/ DashboardEmpty /\ UNCHANGED otherThanDashboard
    \/ ProjectFails /\ UNCHANGED otherThanDashboard
    \/ ProjectAnalysed /\ UNCHANGED otherThanDashboard

InitDashboard ==
    DashboardStart /\ IdleAnalyze /\ IdleClean /\ IdleScore /\ IdleGrowth /\ IdleTracker

\* one run of GrowthDashboard.show_growth_dashboard
SpecDashboard == InitDashboard /\ [][NextDashboard]_vars

DashboardOver == gd_pc \in {"return", "raise"}

\* C14: the growth-rate computation never raises or divides by zero: for a
\* non-empty snapshot sequence the growth rate is omitted when there are
\* fewer than two snapshots or the first complexity is zero, and is
\* (last complexity - first complexity) / first complexity * 100 otherwise.
C14_GrowthRateGuarded ==
    (DashboardOver /\ Len(growth_data) > 0) =>
        LET first == growth_data[1].complexity
            last == growth_data[Len(growth_data)].complexity
            rate == insights.growth_rate
        IN  /\ gd_pc = "return"
            /\ ~insights.raised
            /\ IF Len(growth_data) < 2 \/ first = 0
               THEN ~rate.defined
               ELSE /\ rate.defined
                    /\ rate.num * first = (last - first) * 100 * rate.den

\* C15: for two or more snapshots the consistency score is
\* 100 - max(0, meanGapDays - 7) * 5 with meanGapDays = (latest date -
\* earliest date) / (n - 1); for fewer than two snapshots none is computed.
C15_ConsistencyScore ==
    (DashboardOver /\ Len(growth_data) > 0) =>
        LET n == Len(growth_data)
            score == insights.consistency
        IN  IF n < 2
            THEN ~score.defined
            ELSE /\ score.defined
                 /\ score.num * (n - 1) =
                        score.den * (100 * (n - 1) - 5 * Max(0, SpanDays(growth_data) - 7 * (n - 1)))

\* the snapshots show_growth_dashboard is to have kept after these calls
KeptSnapshots(calls) ==
    LET ok == SelectSeq(calls, LAMBDA c : "error" \notin DOMAIN c.analysis)
    IN  [ k \in 1..Len(ok) |->
            [ frontend |-> ok[k].analysis.frontend,
              backend |-> ok[k].analysis.backend,
              deployment |-> ok[k].analysis.deployment,
              complexity |-> ok[k].analysis.complexity,
              project_name |-> gd_projects[ok[k].index].name,
              date |-> gd_projects[ok[k].index].date_added ] ]

\* C16: a project whose analysis fails is skipped and never aborts the batch:
\* the projects are analysed one after the other, each once and each from its
\* own URL, every project is analysed by the time the method is over, and
\* growth_data holds exactly the snapshots of the analyses that succeeded, in
\* project-list order, each tagged with its own project's name and date.
C16_FailedProjectsSkipped ==
    gd_pc # "off" =>
        /\ Len(gd_calls) = gd_i - 1
        /\ \A k \in 1..Len(gd_calls) :
              /\ gd_calls[k].index = k
              /\ gd_calls[k].url = GrowthFetchUrl(gd_projects[k].url)
        /\ growth_data = KeptSnapshots(gd_calls)
        /\ DashboardOver => Len(gd_calls) = Len(gd_projects)

\* three projects, the second of which failed: the first and the third are kept
C16_Witness ==
    /\ DashboardOver
    /\ Len(gd_projects) = 3
    /\ "error" \in DOMAIN gd_calls[2].analysis
    /\ Len(growth_data) = 2
    /\ gd_projects[2].name # gd_projects[3].name
    /\ growth_data[2].project_name = gd_projects[3].name
    /\ growth_data[2].date = gd_projects[3].date_added
    /\ gd_projects[2].date_added # gd_projects[3].date_added

-----------------------------------------------------------------------------
(* A property of the feature extraction of analyze_url, checked under Spec *)

SignalGroups ==
    {"seo", "technologies", "performance", "security", "accessibility", "content"}

\* C17: feature extraction aborts on no fetched markup: whatever body a GET
\* returned (empty, not HTML, without <html> or <title>), analyze_url returns
\* the success variant with all six signal groups, not the error variant.
C17_ExtractionNeverAborts ==
    pc = "DONE" =>
        /\ "error" \notin DOMAIN result
        /\ SignalGroups \subseteq DOMAIN result

-----------------------------------------------------------------------------
(***************************************************************************)
(* ProjectTracker and the forms of the project manager that change         *)
(* st.session_state.projects.  project_index counts from 0 as in the       *)
(* source; the k-th project of the list is projects[k + 1].                *)
(***************************************************************************)
Whitespace == {" ", "\t", "\n"}

\* s.strip()
RECURSIVE Strip(_)
Strip(s) ==
    IF s # <<>> /\ Head(s) \in Whitespace THEN Strip(Tail(s))
    ELSE IF s # <<>> /\ s[Len(s)] \in Whitespace THEN Strip(SubSeq(s, 1, Len(s) - 1))
    ELSE s

NAME_MISSING == "Please enter a project name"
URL_MISSING == "Please enter a project URL"
PROJECT_ADDED == "Project added successfully!"

\* lines 99-112: the record add_project builds
NewProject(name, u, project_type, description, today) ==
    LET stripped == Strip(u)
    IN  [ name |-> name,
          url |-> IF ~(StartsWith(stripped, HTTP) \/ StartsWith(stripped, HTTPS))
                  THEN HTTPS \o stripped ELSE stripped,
          type |-> project_type,
          description |-> description,
          date_added |-> today,
          challenges |-> <<>>,
          learnings |-> <<>> ]

\* add_project without the test of the name
add_project_anyName(ps, name, u, project_type, description, today) ==
    IF u = <<>> THEN [ projects |-> ps, ret |-> <<FALSE, URL_MISSING>> ]
    ELSE [ projects |-> Append(ps, NewProject(name, u, project_type, description, today)),
           ret |-> <<TRUE, PROJECT_ADDED>> ]

\* add_project on the list ps: the list it leaves and the value it returns
add_project(ps, name, u, project_type, description, today) ==
    IF name = "" THEN [ projects |-> ps, ret |-> <<FALSE, NAME_MISSING>> ]
    ELSE IF u = <<>> THEN [ projects |-> ps, ret |-> <<FALSE, URL_MISSING>> ]
    ELSE [ projects |-> Append(ps, NewProject(name, u, project_type, description, today)),
           ret |-> <<TRUE, PROJECT_ADDED>> ]

\* add_project_update that records the challenge and not the learning
add_project_update_challengeOnly(ps, project_index, challenge, learning) ==
    IF 0 <= project_index /\ project_index < Len(ps)
    THEN [ projects |-> [ps EXCEPT ![project_index + 1].challenges = Append(@, challenge)],
           ret |-> TRUE ]
    ELSE [ projects |-> ps, ret |-> FALSE ]

add_project_update(ps, project_index, challenge, learning) ==
    IF 0 <= project_index /\ project_index < Len(ps)
    THEN [ projects |-> [ps EXCEPT ![project_index + 1].challenges = Append(@, challenge),
                                   ![project_index + 1].learnings = Append(@, learning)],
           ret |-> TRUE ]
    ELSE [ projects |-> ps, ret |-> FALSE ]

\* lines 733-734: the "Save Update" form of the project at idx
SaveUpdateForm(ps, idx, challenge, learning) ==
    [ps EXCEPT ![idx + 1].challenges = Append(@, challenge),
               ![idx + 1].learnings = Append(@, learning)]

\* two of the values analyze_url(u) returns: the error after every GET
\* failed, and the analysis of a plain page the first GET returned
AnalyzeUrlResult(u, fetched) ==
    IF fetched
    THEN ExceptException(AnalyzeResponse(clean_url(u),
                                         [BaseResponse EXCEPT !.url = clean_url(u)]))
    ELSE ExceptException([ raised |-> TRUE,
                           exc |-> UnreachableError(u, clean_url(u), AlternativeUrls(u)) ])

\* the dictionary results after the loop of lines 128-129, given what each
\* analyze_url call returned: a later assignment to a key replaces an earlier
analyze_projects(ps, returned) ==
    [ name \in { ps[k].name : k \in 1..Len(ps) } |->
        LET last == SetMax({ k \in 1..Len(ps) : ps[k].name = name })
        IN  returned[last] ]

MaxTracked == 2

MaxUpdates == 1

NameArgs == {"", "p", "q"}

UrlArgs == { <<>>, <<" ", "a", "\n">>, HTTP \o <<"c">> }

TrackerDays == {0, 1}

\* the clock does not go back: today is no earlier than the last date_added
Today(ps) ==
    { d \in TrackerDays : ps # <<>> => ps[Len(ps)].date_added <= d }

\* the updates recorded in the whole list
RECURSIVE Updates(_)
Updates(ps) ==
    IF ps = <<>> THEN 0 ELSE Len(Head(ps).challenges) + Updates(Tail(ps))

TrackerStart ==
    /\ projects = <<>>
    /\ tr_last = [ op |-> "start" ]

\* the "Add Project" form is submitted
AddProject ==
    /\ Len(projects) < MaxTracked
    /\ \E name \in NameArgs, u \in UrlArgs, today \in Today(projects) :
          LET out == add_project(projects, name, u, "Other", "d", today)
          IN  /\ projects' = out.projects
              /\ tr_last' = [ op |-> "add_project", name |-> name, url |-> u,
                              today |-> today, before |-> projects,
                              ret |-> out.ret ]

\* add_project_update is called with any index
AddProjectUpdate ==
    \E project_index \in -1..Len(projects) :
        /\ (0 <= project_index /\ project_index < Len(projects)) =>
               Updates(projects) < MaxUpdates
        /\ LET out == add_project_update(projects, project_index, "c", "l")
           IN  /\ projects' = out.projects
               /\ tr_last' = [ op |-> "add_project_update",
                               project_index |-> project_index,
                               before |-> projects, ret |-> out.ret ]

\* the "Save Update" form of a listed project is submitted
SaveUpdate ==
    \E idx \in 0..(Len(projects) - 1) :
        /\ Updates(projects) < MaxUpdates
        /\ projects' = SaveUpdateForm(projects, idx, "c", "l")
        /\ tr_last' = [ op |-> "save_update", project_index |-> idx,
                        before |-> projects, ret |-> None ]

\* analyze_projects is called; every analyze_url call returns one of its values
AnalyzeProjects ==
    /\ \E fetched \in [1..Len(projects) -> BOOLEAN] :
          LET returned == [ k \in 1..Len(projects) |->
                              AnalyzeUrlResult(projects[k].url, fetched[k]) ]
          IN  tr_last' = [ op |-> "analyze_projects", fetched |-> fetched,
                           before |-> projects,
                           ret |-> analyze_projects(projects, returned) ]
    /\ UNCHANGED projects

\* what the "Edit URL" field is changed to: nothing, or a URL with a scheme
UrlEdits == { <<>>, HTTP \o <<"c">> }

\* line 795: the first project of the list with the selected name
SelectedIndex(ps, selected_project) ==
    SetMin({ k \in 1..Len(ps) : ps[k].name = selected_project })

\* lines 798-802: the "Edit URL" field of the selected project holds another
\* text than its URL and "Update URL" is pressed
UpdateUrl ==
    \E k \in 1..Len(projects), new_url \in UrlEdits :
        LET selected_project == projects[k].name
            i == SelectedIndex(projects, selected_project)
        IN  /\ new_url # projects[i].url
            /\ projects' = [projects EXCEPT ![i].url = new_url]
            /\ tr_last' = [ op |-> "update_url", selected_project |-> selected_project,
                            new_url |-> new_url, before |-> projects,
                            ret |-> None ]

otherThanTracker == <<analyzeVars, cleanVars, scoreVars, growthVars, dashboardVars>>

NextTracker ==
    \/ AddProject /\ UNCHANGED otherThanTracker
    \/ AddProjectUpdate /\ UNCHANGED otherThanTracker
    \/ SaveUpdate /\ UNCHANGED otherThanTracker
    \/ AnalyzeProjects /\ UNCHANGED otherThanTracker
    \/ UpdateUrl /\ UNCHANGED otherThanTracker

InitTracker ==
    TrackerStart /\ IdleAnalyze /\ IdleClean /\ IdleScore /\ IdleGrowth /\ IdleDashboard

\* a session of operations on the project list
SpecTracker == InitTracker /\ [][NextTracker]_vars

\* C18: add_project with an empty name or an empty URL returns
\* (False, message) and leaves the project list as it was; with a non-empty
\* name and a non-empty URL it appends exactly one record to the end of the
\* list and changes no record that was there.
C18_AddProjectFrame ==
    tr_last.op = "add_project" =>
        LET before == tr_last.before
        IN  IF tr_last.name = "" \/ tr_last.url = <<>>
            THEN /\ tr_last.ret[1] = FALSE
                 /\ tr_last.ret[2] \in {NAME_MISSING, URL_MISSING}
                 /\ projects = before
            ELSE /\ tr_last.ret[1] = TRUE
                 /\ Len(projects) = Len(before) + 1
                 /\ \A k \in 1..Len(before) : projects[k] = before[k]
                 /\ projects[Len(projects)].name = tr_last.name
                 /\ projects[Len(projects)].date_added = tr_last.today
                 /\ projects[Len(projects)].challenges = <<>>
                 /\ projects[Len(projects)].learnings = <<>>

\* a project whose URL has blanks around it and no scheme, added after a
\* project that has an update
C18_Witness ==
    /\ tr_last.op = "add_project"
    /\ tr_last.url = <<" ", "a", "\n">>
    /\ tr_last.ret[1] = TRUE
    /\ Len(tr_last.before) = 1
    /\ Len(tr_last.before[1].challenges) = 1
    /\ Len(projects) = 2
    /\ projects[2].url = HTTPS \o <<"a">>

\* C19: analyze_projects returns one result for each project of the list,
\* also when projects share a name: as many results as projects, each the
\* one computed from that project's own URL.
C19_OneResultPerProject ==
    tr_last.op = "analyze_projects" =>
        /\ Cardinality(DOMAIN tr_last.ret) = Len(projects)
        /\ \A k \in 1..Len(projects) :
              tr_last.ret[projects[k].name] =
                  AnalyzeUrlResult(projects[k].url, tr_last.fetched[k])

\* C20: every project has as many challenges as learnings, after any
\* sequence of add_project, add_project_update and "Save Update";
\* add_project_update with an index out of range returns False and changes
\* nothing.
C20_UpdatesPaired ==
    /\ \A k \in 1..Len(projects) :
          Len(projects[k].challenges) = Len(projects[k].learnings)
    /\ tr_last.op = "add_project_update" =>
          LET i == tr_last.project_index
              before == tr_last.before
          IN  IF i < 0 \/ i >= Len(before)
              THEN tr_last.ret = FALSE /\ projects = before
              ELSE /\ tr_last.ret = TRUE
                   /\ Len(projects[i + 1].challenges) = Len(before[i + 1].challenges) + 1

\* add_project_update with the index len(projects), on a list of two projects
\* one of which has an update
C20_Witness ==
    /\ tr_last.op = "add_project_update"
    /\ tr_last.project_index = 2
    /\ Len(projects) = 2
    /\ tr_last.ret = FALSE
    /\ Len(projects[1].challenges) = 0
    /\ Len(projects[2].learnings) = 1

\* a URL that begins with http:// or https:// and goes on with a host
HasSchemeAndHost(u) ==
    \/ StartsWith(u, HTTP) /\ Len(u) > Len(HTTP) /\ u[Len(HTTP) + 1] # "/"
    \/ StartsWith(u, HTTPS) /\ Len(u) > Len(HTTPS) /\ u[Len(HTTPS) + 1] # "/"

\* C21: after any sequence of add_project calls and "Update URL" edits every
\* project of the list has a non-empty name and a URL that begins with
\* http:// or https:// followed by a non-empty host.
C21_StoredProjectsWellFormed ==
    \A k \in 1..Len(projects) :
        /\ projects[k].name # ""
        /\ HasSchemeAndHost(projects[k].url)

=============================================================================
